---- MODULE Spec2Model ----
(***************************************************************************)
(* Model of the WalletGate EUDI SDK client (src/src/index.ts): the         *)
(* request/retry loop of WalletGate.request, driven by startVerification   *)
(* and getResult, with the timeout timer, the backoff sleep and the        *)
(* onRateLimit callback; WalletGate.verifyWebhook; and the input validator *)
(* CreateSessionSchema (src/src/schemas/index.ts).                         *)
(***************************************************************************)
EXTENDS Integers, Sequences, FiniteSets, TLC

VARIABLES
    config,   \* the client's fields after construction (index.ts:41-59)
    calls,    \* one record per logical call that the client makes: the locals of
              \* request() and the observers of the call
    webhook,  \* the invocation of verifyWebhook: its arguments, its environment,
              \* its outcome and the observers of the invocation
    validation \* the application of CreateSessionSchema to an input: the input
              \* and the verdict

vars == <<config, calls, webhook, validation>>

-----------------------------------------------------------------------------
(* Bounds of the model *)

\* largest retries.maxRetries a client is constructed with
MaxRetriesBound == 2

\* the observers fetchCount / sleepCount / failures saturate here (above every
\* value the code can reach with maxRetries <= MaxRetriesBound)
CountCap == MaxRetriesBound + 3

\* Math.random() returns one of 0/RandomDen, 1/RandomDen, ..., (RandomDen-1)/RandomDen
RandomDen == 4

-----------------------------------------------------------------------------
(* JSON values, as far as the client inspects them *)

Undef == [t |-> "undefined", s |-> "", n |-> 0]
Str(x) == [t |-> "string", s |-> x, n |-> 0]
Num(k) == [t |-> "number", s |-> "", n |-> k]

\* JavaScript truthiness of a field value (used by `||`, `&&` and `if`)
Truthy(v) == \/ v.t = "string" /\ v.s # ""
             \/ v.t = "number" /\ v.n # 0

Obj(code, message, retryAfterSeconds, monthlyLimit, dailyLimit, upgradeUrl, id) ==
    [t |-> "object", code |-> code, message |-> message,
     retryAfterSeconds |-> retryAfterSeconds, monthlyLimit |-> monthlyLimit,
     dailyLimit |-> dailyLimit, upgradeUrl |-> upgradeUrl, id |-> id]

\* the JSON value null (what safeJson returns when res.json() throws)
NullJson == [Obj(Undef, Undef, Undef, Undef, Undef, Undef, Undef) EXCEPT !.t = "null"]

\* a body on the wire that is not JSON
Malformed == [Obj(Undef, Undef, Undef, Undef, Undef, Undef, Undef) EXCEPT !.t = "malformed"]

SessionJson == Obj(Undef, Undef, Undef, Undef, Undef, Undef, Str("sess_123"))
ErrBare == Obj(Undef, Undef, Undef, Undef, Undef, Undef, Undef)
ErrMsg == Obj(Str("BAD_REQUEST"), Str("Bad data"), Undef, Undef, Undef, Undef, Undef)
RLBare == Obj(Str("RATE_LIMIT_EXCEEDED"), Undef, Undef, Undef, Undef, Undef, Undef)
RLFull == Obj(Str("RATE_LIMIT_EXCEEDED"), Str("Too many requests"), Num(42), Num(1000),
              Undef, Str("https://walletgate.app/#pricing"), Undef)

\* the body of 'should handle rate limit errors with callback'
RLAll == Obj(Str("RATE_LIMIT_EXCEEDED"), Str("Rate limit exceeded"), Num(60), Num(10000),
             Num(1000), Str("https://upgrade.example.com"), Undef)
\* a rate-limit body whose numbers are 0 and whose strings are empty
RLZero == Obj(Str("RATE_LIMIT_EXCEEDED"), Str(""), Num(0), Num(0), Num(0), Str(""), Undef)
\* a rate-limit body whose fields have the wrong JSON type
RLWrongTypes == Obj(Str("RATE_LIMIT_EXCEEDED"), Undef, Str("60"), Str("10000"), Str("1000"),
                    Num(7), Undef)
\* an error body whose message is the empty string
ErrEmptyMsg == Obj(Str("BAD_REQUEST"), Str(""), Undef, Undef, Undef, Undef, Undef)

Resp(status, body) == [status |-> status, body |-> body]
NoResponse == Resp(0, Malformed)

\* the responses the server may send to a fetch
Responses ==
    { Resp(200, SessionJson), Resp(200, Malformed),
      Resp(400, ErrMsg), Resp(404, ErrBare),
      Resp(429, RLBare), Resp(429, RLFull),
      Resp(429, RLAll), Resp(429, RLZero), Resp(429, RLWrongTypes),
      Resp(400, ErrEmptyMsg), Resp(400, Malformed),
      Resp(500, ErrMsg), Resp(502, ErrEmptyMsg), Resp(503, Malformed), Resp(304, Malformed) }

-----------------------------------------------------------------------------
(* Errors and results *)

Err(kind, message, origin) == [kind |-> kind, message |-> message, origin |-> origin]
NoError == Err("none", <<>>, 0)

\* class NoRetryError extends Error {}
NoRetryError(message, origin) == Err("NoRetryError", message, origin)
\* new Error(...)
PlainError(message, origin) == Err("Error", message, origin)
\* fetch rejecting for a transport failure
NetworkError(origin) == Err("TypeError", <<"fetch failed">>, origin)
\* fetch rejecting because controller.signal is aborted
AbortError(origin) == Err("AbortError", <<"Aborted">>, origin)

Pending == [kind |-> "pending", value |-> NullJson, error |-> NoError]
Resolved(v) == [kind |-> "resolved", value |-> v, error |-> NoError]
Rejected(e) == [kind |-> "rejected", value |-> NullJson, error |-> e]

-----------------------------------------------------------------------------
(* Construction *)

\* an optional number or boolean of the constructor's argument
Absent == [given |-> FALSE, n |-> 0, b |-> FALSE]
Given(n) == [given |-> TRUE, n |-> n, b |-> FALSE]
GivenBool(b) == [given |-> TRUE, n |-> 0, b |-> b]

\* the retries.maxRetries given to the constructor: absent, or a number
RetryInputs == {Absent} \cup {Given(k) : k \in 0..MaxRetriesBound}

\* what the constructor is given apart from maxRetries and onRateLimit: a
\* client with the retry policy of the retry tests and the default baseUrl and
\* timeout, and one with its own baseUrl and timeout; an absent baseUrl is ""
TestProfile ==
    [apiKey |-> "wg_test_key", baseUrl |-> "", timeout |-> Absent,
     baseDelayMs |-> Given(1), factor |-> Given(1), jitter |-> GivenBool(FALSE)]
LiveProfile ==
    [apiKey |-> "wg_live_key", baseUrl |-> "https://api.local", timeout |-> Given(5000),
     baseDelayMs |-> Given(10), factor |-> Absent, jitter |-> GivenBool(FALSE)]
Profiles == {TestProfile, LiveProfile}

\* the WalletGateConfig given to the constructor
ConfigIn(profile, maxRetriesIn, hasOnRateLimit) ==
    [apiKey |-> profile.apiKey, baseUrl |-> profile.baseUrl, timeout |-> profile.timeout,
     maxRetries |-> maxRetriesIn, baseDelayMs |-> profile.baseDelayMs,
     factor |-> profile.factor, jitter |-> profile.jitter, onRateLimit |-> hasOnRateLimit]

\* new WalletGate(config): baseUrl || default, timeout || 30000,
\* r.maxRetries ?? 0, r.baseDelayMs ?? 200, r.factor ?? 2, r.jitter ?? true
Constructor(in) ==
    [apiKey |-> in.apiKey,
     baseUrl |-> IF in.baseUrl # "" THEN in.baseUrl ELSE "https://api.walletgate.app",
     timeout |-> IF in.timeout.given /\ in.timeout.n # 0 THEN in.timeout.n ELSE 30000,
     maxRetries |-> IF in.maxRetries.given THEN in.maxRetries.n ELSE 0,
     baseDelayMs |-> IF in.baseDelayMs.given THEN in.baseDelayMs.n ELSE 200,
     factor |-> IF in.factor.given THEN in.factor.n ELSE 2,
     jitter |-> IF in.jitter.given THEN in.jitter.b ELSE TRUE,
     onRateLimit |-> in.onRateLimit]

\* the clients that are constructed
Clients ==
    {Constructor(ConfigIn(p, m, h)) : p \in Profiles, m \in RetryInputs, h \in BOOLEAN}

\* a retry budget that is counted down in the client's own field
FieldsAfterStepCountsDown(fields) ==
    [fields EXCEPT !.maxRetries = IF @ > 0 THEN @ - 1 ELSE @]

\* the fields of the client after a step of any of its operations: no
\* statement outside the constructor assigns one
FieldsAfterStep(fields) == fields

\* the two public operations that run request()
Calls == {"startVerification", "getResult"}

-----------------------------------------------------------------------------
(* The arguments of the calls and what is handed to fetch *)

\* one entry of input.checks
Check(type, value) == [type |-> type, value |-> value]

\* an optional URL field: absent, or a string given as its pieces
\* <<scheme, ":", rest>> (a string that is no URL is a single piece)
NoUrl == [given |-> FALSE, text |-> <<>>]
Url(text) == [given |-> TRUE, text |-> text]

\* a CreateSessionInput (metadata and enableAI are left out)
Input(checks, redirectUrl, successUrl, cancelUrl, webhookUrl) ==
    [checks |-> checks, redirectUrl |-> redirectUrl, successUrl |-> successUrl,
     cancelUrl |-> cancelUrl, webhookUrl |-> webhookUrl]

AgeOver18 == Check("age_over", Num(18))
\* a list of n checks
ChecksOf(n) == [i \in 1..n |-> AgeOver18]

\* .max(10) of CreateSessionSchema.checks
MaxChecks == 10

ValidInput == Input(<<AgeOver18>>, Url(<<"https", ":", "//shop.example/done">>), NoUrl, NoUrl, NoUrl)
NoChecksInput == Input(<<>>, NoUrl, NoUrl, NoUrl, NoUrl)
FullInput == Input(ChecksOf(MaxChecks), NoUrl, NoUrl, NoUrl, NoUrl)
TooManyChecksInput == Input(ChecksOf(MaxChecks + 1), NoUrl, NoUrl, NoUrl, NoUrl)
BadTypeInput == Input(<<Check("age_under", Num(18))>>, NoUrl, NoUrl, NoUrl, NoUrl)
BadUrlInput == Input(<<AgeOver18>>, NoUrl, NoUrl, NoUrl, Url(<<"not a url">>))

\* the inputs startVerification is called with
Inputs == {ValidInput, NoChecksInput, FullInput, TooManyChecksInput, BadTypeInput, BadUrlInput}

\* z.enum(['age_over', 'residency_eu', 'identity_verified'])
CheckTypes == {"age_over", "residency_eu", "identity_verified"}

\* VerificationCheckSchema: type in the enum, value an optional number or string
VerificationCheckSchema(check) ==
    /\ check.type \in CheckTypes
    /\ check.value.t \in {"undefined", "number", "string"}

\* z.string().url(): the text parses as a URL (a scheme, then ":")
IsUrl(text) == Len(text) = 3 /\ text[1] # "" /\ text[2] = ":"

\* z.string().url().optional()
OptionalUrl(u) == ~u.given \/ IsUrl(u.text)

\* CreateSessionSchema accepts the input
CreateSessionSchema(input) ==
    /\ Len(input.checks) >= 1
    /\ Len(input.checks) <= MaxChecks
    /\ \A i \in 1..Len(input.checks) : VerificationCheckSchema(input.checks[i])
    /\ OptionalUrl(input.redirectUrl)
    /\ OptionalUrl(input.successUrl)
    /\ OptionalUrl(input.cancelUrl)
    /\ OptionalUrl(input.webhookUrl)

\* a list of n checks that are all the given one
ChecksOfKind(n, check) == [i \in 1..n |-> check]

\* the types, values and URL fields of the inputs given to the validator
SchemaCheckTypes == {"age_over", "residency_eu", "age_under"}
SchemaCheckValues == {Undef, Str("18"), Num(0 - 1), Num(0), Num(18), Num(150), Num(151)}
SchemaUrls ==
    {NoUrl, Url(<<"https", ":", "//shop.example/done">>),
     Url(<<"http", ":", "//shop.example/done">>), Url(<<"not a url">>)}

\* the inputs given to the validator: check lists of 0 to MaxChecks + 1 entries
SchemaInputs ==
    {Input(ChecksOfKind(n, Check(type, value)), url, NoUrl, NoUrl, NoUrl) :
        n \in 0..(MaxChecks + 1), type \in SchemaCheckTypes,
        value \in SchemaCheckValues, url \in SchemaUrls}

\* before the validator is applied
ValidationIdle == [pc |-> "idle", input |-> NoChecksInput, accepted |-> FALSE]

\* the body of a request: absent, or the JSON text of a value
NoBody == [present |-> FALSE, json |-> NoChecksInput]
\* JSON.stringify(input)
JSONStringify(input) == [present |-> TRUE, json |-> input]

\* no per-call headers (options.headers is undefined in both operations)
NoHeaders == [h \in {} |-> <<>>]

\* the path and RequestInit that startVerification(input) passes to request()
StartVerificationArgs(input) ==
    [path |-> <<"/v1/verify/sessions">>, method |-> "POST",
     body |-> JSONStringify(input), headers |-> NoHeaders]

\* the path and RequestInit that getResult(sessionId) passes to request()
GetResultArgs(sessionId) ==
    [path |-> <<"/v1/verify/sessions/", sessionId>>, method |-> "GET",
     body |-> NoBody, headers |-> NoHeaders]

\* the arguments with which operation c may be called
ArgsOf(c) ==
    IF c = "startVerification" THEN {StartVerificationArgs(input) : input \in Inputs}
    ELSE {GetResultArgs("sess_123")}

\* request headers that lack the credential
RequestHeadersNoAuth(apiKey, optionHeaders) ==
    optionHeaders @@ ("Content-Type" :> <<"application/json">>)

\* headers: { 'Authorization': `Bearer ${this.apiKey}`,
\*            'Content-Type': 'application/json', ...options.headers }
RequestHeaders(apiKey, optionHeaders) ==
    optionHeaders @@ ("Authorization" :> <<"Bearer ", apiKey>>)
                  @@ ("Content-Type" :> <<"application/json">>)

\* a fetch that is not given the options of the call
FetchInitDropsBody(args, apiKey) ==
    [path |-> args.path, method |-> args.method, body |-> NoBody,
     headers |-> RequestHeaders(apiKey, args.headers)]

\* the second argument of fetch: { ...options, headers: {...}, signal }
FetchInit(args, apiKey) ==
    [path |-> args.path, method |-> args.method, body |-> args.body,
     headers |-> RequestHeaders(apiKey, args.headers)]

\* the arguments of a call that has not been made
NoArgs == GetResultArgs("")

\* no RateLimitInfo (onRateLimit has not been invoked)
NoInfo ==
    [message |-> Undef, retryAfterSeconds |-> Undef, monthlyLimit |-> Undef,
     dailyLimit |-> Undef, upgradeUrl |-> Undef]

\* the state of a call that has not been made yet
Idle ==
    [pc |-> "idle", attempt |-> 0, timeoutId |-> "unset", aborted |-> FALSE,
     hang |-> FALSE, response |-> NoResponse, parsed |-> NullJson,
     result |-> Pending, thrown |-> NoError,
     fetchCount |-> 0, sleepCount |-> 0, failures |-> 0,
     rlCalls |-> 0, rlInfo |-> NoInfo, cbThrew |-> FALSE, seen |-> {},
     args |-> NoArgs, sent |-> <<>>, sleepMs |-> 0]

-----------------------------------------------------------------------------
(* verifyWebhook: its inputs *)

\* the runtime: typeof process !== 'undefined', process.versions?.node, and
\* globalThis.__WG_NODE_CRYPTO
Env(hasProcess, hasNodeVersion, hasCrypto) ==
    [hasProcess |-> hasProcess, hasNodeVersion |-> hasNodeVersion, hasCrypto |-> hasCrypto]
Envs == {Env(p, v, k) : p \in BOOLEAN, v \in BOOLEAN, k \in BOOLEAN}

Secrets == {"shhh", "secret"}
RawBodies == {"payload_hello", "payload_event"}

\* Strings that the code inspects character by character are sequences of
\* characters.  The base64 HMAC-SHA256 digest is abstracted to a text of fixed
\* length that is different for different (secret, rawBody).
\* nodeCrypto.createHmac('sha256', secret).update(rawBody).digest('base64')
HmacBase64(secret, rawBody) ==
    <<IF secret = "shhh" THEN "s" ELSE "t", IF rawBody = "payload_hello" THEN "h" ELSE "e", "=">>

\* the characters signatures are made of; "e-acute" is one character of two
\* UTF-8 bytes
Alphabet == {"s", "t", "h", "e", "=", "A"}

\* every text that differs from sig in exactly one position
Mutations(sig) ==
    {[sig EXCEPT ![i] = ch] : i \in 1..Len(sig), ch \in Alphabet} \ {sig}

\* the signatures presented for (secret, rawBody): the right one, the digests
\* of the other secrets and bodies, every single-character mutation, and
\* texts of another length
Signatures(secret, rawBody) ==
    LET sig == HmacBase64(secret, rawBody)
    IN  {HmacBase64(x, y) : x \in Secrets, y \in RawBodies}
          \cup Mutations(sig)
          \cup {<<>>, SubSeq(sig, 1, Len(sig) - 1), sig \o <<"=">>, <<Head(sig), "e-acute">>}

\* Date.now() at the invocation, in ms
Clock == {1000000}

DigitChars == <<"0", "1", "2", "3", "4", "5", "6", "7", "8", "9">>

\* String(n) for an integer n >= 0
RECURSIVE Digits(_)
Digits(n) ==
    IF n < 10 THEN <<DigitChars[n + 1]>>
    ELSE Digits(n \div 10) \o <<DigitChars[(n % 10) + 1]>>

\* the freshness window, in ms
MaxAgeMs == 5 * 60000

\* the times at which a webhook may claim to have been sent, around now
SentTimes(now) ==
    {now - 2 * MaxAgeMs, now - MaxAgeMs - 1, now - MaxAgeMs, now - MaxAgeMs + 1,
     now - 1, now, now + 1, now + MaxAgeMs, now + MaxAgeMs + 1, now + 2 * MaxAgeMs}

\* the timestamp strings presented at time now
Timestamps(now) ==
    {Digits(t) : t \in SentTimes(now)}
      \cup {<<>>, <<"n", "o", "w">>, <<"-", "5">>, <<" ">> \o Digits(now) \o <<"m", "s">>}

\* before verifyWebhook is invoked
WebhookIdle ==
    [pc |-> "idle", env |-> Env(FALSE, FALSE, FALSE), rawBody |-> "", signature |-> <<>>,
     secret |-> "", timestamp |-> <<>>, now |-> 0,
     outcome |-> [kind |-> "none", value |-> FALSE, message |-> ""],
     comparatorCalls |-> 0, freshnessChecked |-> FALSE]

-----------------------------------------------------------------------------
\* a client is constructed and is about to make one logical call, with one of
\* the arguments of that operation
Init ==
    /\ config \in Clients
    /\ \E op \in Calls : \E args \in ArgsOf(op) :
         calls = [c \in {op} |-> [Idle EXCEPT !.args = args]]
    /\ webhook = WebhookIdle
    /\ validation = ValidationIdle

\* a client is constructed and is about to verify one webhook
WebhookInit ==
    /\ config \in Clients
    /\ calls = [c \in {} |-> Idle]
    /\ webhook = WebhookIdle
    /\ validation = ValidationIdle

-----------------------------------------------------------------------------
(* The pure parts of request() *)

\* response.ok
IsOk(status) == status >= 200 /\ status <= 299

\* a client-error range that starts one too high
IsClientErrorAbove400(status) == status > 400 /\ status < 500

\* response.status >= 400 && response.status < 500
IsClientError(status) == status >= 400 /\ status < 500

\* a safeJson without its try/catch: what could not be parsed gets through
SafeJsonUnguarded(body, readAborted) == {body}

\* safeJson(res): the value of res.json(), or null when it throws.  res.json()
\* throws on a body that is not JSON; when the signal is aborted while the body
\* is being read the read may already be complete or may throw.
SafeJson(body, readAborted) ==
    IF body.t = "malformed" THEN {NullJson}
    ELSE IF readAborted THEN {body, NullJson}
    ELSE {body}

\* a rate-limit test that forgets the code
IsRateLimitAnyBody(err) == err.t = "object"

\* err && err.code === 'RATE_LIMIT_EXCEEDED'
IsRateLimit(err) == err.t = "object" /\ err.code = Str("RATE_LIMIT_EXCEEDED")

\* a number test by truthiness instead of typeof
NumberOrUndefTruthy(v) == IF Truthy(v) THEN v ELSE Undef

\* typeof x === 'number' ? x : undefined
NumberOrUndef(v) == IF v.t = "number" THEN v ELSE Undef
\* typeof x === 'string' ? x : undefined
StringOrUndef(v) == IF v.t = "string" THEN v ELSE Undef

\* const info: RateLimitInfo = {...}
RateLimitInfoOf(err) ==
    [message |-> IF Truthy(err.message) THEN err.message ELSE Str("Rate limit exceeded"),
     retryAfterSeconds |-> NumberOrUndef(err.retryAfterSeconds),
     monthlyLimit |-> NumberOrUndef(err.monthlyLimit),
     dailyLimit |-> NumberOrUndef(err.dailyLimit),
     upgradeUrl |-> StringOrUndef(err.upgradeUrl)]

\* details.join(', ')
RECURSIVE JoinDetails(_)
JoinDetails(details) ==
    IF details = <<>> THEN <<>>
    ELSE IF Len(details) = 1 THEN Head(details)
    ELSE Head(details) \o <<", ">> \o JoinDetails(Tail(details))

\* `Rate limit exceeded (${details.join(', ')})${hint}`, as a sequence of text pieces
\* (the dash that precedes "upgrade:" in the source is written "-" here)
RateLimitMessage(info) ==
    LET d1 == IF Truthy(info.retryAfterSeconds)
              THEN << <<"retry after ~", ToString(info.retryAfterSeconds.n), "s">> >> ELSE <<>>
        d2 == IF Truthy(info.monthlyLimit)
              THEN << <<"plan limit: ", ToString(info.monthlyLimit.n), "/mo">> >> ELSE <<>>
        d3 == IF Truthy(info.dailyLimit)
              THEN << <<"daily cap: ", ToString(info.dailyLimit.n), "/24h">> >> ELSE <<>>
        hint == IF Truthy(info.upgradeUrl) THEN <<" - upgrade: ", info.upgradeUrl.s>> ELSE <<>>
    IN  <<"Rate limit exceeded (">> \o JoinDetails(d1 \o d2 \o d3) \o <<")">> \o hint

\* the text of a truthy message field
MsgText(v) == IF v.t = "string" THEN v.s ELSE ToString(v.n)

\* an error message that ignores the body
MessageOrGenericOnly(err, fallback) == fallback

\* (err && err.message) || fallback
MessageOr(err, fallback) ==
    IF err.t = "object" /\ Truthy(err.message) THEN <<MsgText(err.message)>> ELSE fallback

\* what a configured onRateLimit callback may do when invoked
CallbackOutcomes == {"returns", "throws"}

\* the callback invoked without the try/catch around it
AfterCallbackUnguarded(cbOutcome, rateLimitError) ==
    IF cbOutcome = "throws"
    THEN PlainError(<<"Callback error">>, rateLimitError.origin)
    ELSE rateLimitError

\* try { this.onRateLimit && this.onRateLimit(info); } catch { void 0; }
\* followed by throw new NoRetryError(msg): the callback's outcome is discarded
AfterCallback(cbOutcome, rateLimitError) == rateLimitError

\* a return that drops the parsed body
ReturnValueNull(data) == NullJson

\* return data
ReturnValue(data) == data

\* a fetch that is not given the controller's signal
FetchSignalMissing(k) == FALSE

\* one abort signal for all the calls of the client
FetchSignalShared(k) == \E c \in DOMAIN calls : calls[c].aborted

\* signal: controller.signal -- whether the signal the fetch holds is aborted
FetchSignalAborted(k) == k.aborted

\* a catch block that allows one retry too many
CatchDecisionOffByOne(e, aborted, attempt, maxRetries) ==
    IF e.kind = "NoRetryError" THEN "throw"
    ELSE IF aborted \/ attempt > maxRetries THEN "throw"
    ELSE "retry"

\* a catch block that gives up one retry early
CatchDecisionEarly(e, aborted, attempt, maxRetries) ==
    IF e.kind = "NoRetryError" THEN "throw"
    ELSE IF aborted \/ attempt + 1 >= maxRetries THEN "throw"
    ELSE "retry"

\* a catch block that does not look at the abort signal
CatchDecisionIgnoresAbort(e, aborted, attempt, maxRetries) ==
    IF e.kind = "NoRetryError" THEN "throw"
    ELSE IF attempt >= maxRetries THEN "throw"
    ELSE "retry"

\* the catch block: rethrow or back off
CatchDecision(e, aborted, attempt, maxRetries) ==
    IF e.kind = "NoRetryError" THEN "throw"
    ELSE IF aborted \/ attempt >= maxRetries THEN "throw"
    ELSE "retry"

\* the numerators of the values of Math.random()
Randoms == 0..(RandomDen - 1)

\* Math.pow(b, e) for an integer e >= 0
RECURSIVE Pow(_, _)
Pow(b, e) == IF e = 0 THEN 1 ELSE b * Pow(b, e - 1)

\* a backoff that grows linearly
BackoffMsLinear(fields, attempt) == fields.baseDelayMs * fields.factor * attempt

\* this.retries.baseDelayMs * Math.pow(this.retries.factor, attempt)
BackoffMs(fields, attempt) == fields.baseDelayMs * Pow(fields.factor, attempt)

\* delay(ms, jitter): the duration given to setTimeout,
\* ms + (jitter ? Math.floor(Math.random() * (ms / 2)) : 0), with Math.random() = rnd / RandomDen
DelayMs(ms, jitter, rnd) ==
    ms + IF jitter THEN (rnd * ms) \div (2 * RandomDen) ELSE 0

\* a catch block that wraps what it rethrows
RethrowWrapped(e, attempt) ==
    IF e.kind = "NoRetryError" THEN e
    ELSE PlainError(<<"Request failed after retries">>, attempt)

\* throw e
Rethrow(e, attempt) == e

\* a loop that forgets attempt++
NextAttemptStuck(attempt) == attempt

\* attempt++
NextAttempt(attempt) == attempt + 1

-----------------------------------------------------------------------------
(* Observers *)

Bump(n) == IF n < CountCap THEN n + 1 ELSE n

\* the class of a response status, by its hundreds digit
ClassOf(status) ==
    CASE status \div 100 = 2 -> "2xx"
      [] status \div 100 = 4 -> "4xx"
      [] status \div 100 = 5 -> "5xx"
      [] OTHER -> "other"

-----------------------------------------------------------------------------
(* Steps of request() *)

\* leaving request() without the finally block
SettleLeaksTimer(k, res) == [k EXCEPT !.pc = "done", !.result = res]

\* leaving request(): the promise settles and finally { clearTimeout(timeoutId) }
Settle(k, res) ==
    [k EXCEPT !.pc = "done", !.result = res,
              !.timeoutId = IF @ = "pending" THEN "cleared" ELSE @]

\* a call whose timer is never armed
ArmTimerNever(k) == k

\* const timeoutId = setTimeout(() => controller.abort(), this.timeout)
ArmTimer(k) == [k EXCEPT !.timeoutId = "pending"]

\* await fetch(..., { signal: controller.signal }): one more fetch invocation
InvokeFetch(k, h) ==
    [k EXCEPT !.pc = "fetching", !.fetchCount = Bump(@), !.hang = h,
              !.sent = IF Len(@) < CountCap THEN Append(@, FetchInit(k.args, config.apiKey)) ELSE @]

\* catch (e) { ... }
Catch(k, e, rnd) ==
    LET k1 == [k EXCEPT !.thrown = e, !.failures = Bump(@)]
    IN  IF CatchDecision(e, k.aborted, k.attempt, config.maxRetries) = "throw"
        THEN Settle(k1, Rejected(Rethrow(e, k.attempt)))
        ELSE [k1 EXCEPT !.pc = "sleeping", !.sleepCount = Bump(@),
                        !.sleepMs = DelayMs(BackoffMs(config, k.attempt), config.jitter, rnd)]

\* startVerification(input) / getResult(sessionId): request() runs up to its first await
StartCall(c) ==
    /\ c \in DOMAIN calls
    /\ calls[c].pc = "idle"
    /\ \E h \in BOOLEAN :
         calls' = [calls EXCEPT ![c] = InvokeFetch(ArmTimer(calls[c]), h)]
    /\ config' = FieldsAfterStep(config)
    /\ UNCHANGED <<webhook, validation>>

\* setTimeout(() => controller.abort(), this.timeout) fires
TimerFire(c) ==
    /\ c \in DOMAIN calls
    /\ calls[c].timeoutId = "pending"
    /\ calls' = [calls EXCEPT ![c].timeoutId = "fired", ![c].aborted = TRUE]
    /\ config' = FieldsAfterStep(config)
    /\ UNCHANGED <<webhook, validation>>

\* fetch resolves with a response; request() goes on to await safeJson(response)
FetchRespond(c) ==
    /\ c \in DOMAIN calls
    /\ calls[c].pc = "fetching"
    /\ ~FetchSignalAborted(calls[c])
    /\ ~calls[c].hang
    /\ \E r \in Responses :
         calls' = [calls EXCEPT ![c].pc = "parsing", ![c].response = r,
                                ![c].seen = @ \cup {ClassOf(r.status)}]
    /\ config' = FieldsAfterStep(config)
    /\ UNCHANGED <<webhook, validation>>

\* fetch rejects with a transport failure
FetchFail(c) ==
    /\ c \in DOMAIN calls
    /\ calls[c].pc = "fetching"
    /\ ~FetchSignalAborted(calls[c])
    /\ ~calls[c].hang
    /\ \E rnd \in Randoms :
         calls' = [calls EXCEPT ![c] =
                     Catch([calls[c] EXCEPT !.seen = @ \cup {"neterr"}],
                           NetworkError(calls[c].attempt), rnd)]
    /\ config' = FieldsAfterStep(config)
    /\ UNCHANGED <<webhook, validation>>

\* fetch rejects because the signal is aborted
FetchAbort(c) ==
    /\ c \in DOMAIN calls
    /\ calls[c].pc = "fetching"
    /\ FetchSignalAborted(calls[c])
    /\ \E rnd \in Randoms :
         calls' = [calls EXCEPT ![c] =
                     Catch([calls[c] EXCEPT !.seen = @ \cup {"abort"}],
                           AbortError(calls[c].attempt), rnd)]
    /\ config' = FieldsAfterStep(config)
    /\ UNCHANGED <<webhook, validation>>

\* safeJson(response) returns: the rest of the try block and the catch block
AfterBody(k, parsed, cb, rnd) ==
    LET status == k.response.status
        k1 == [k EXCEPT !.parsed = parsed]
    IN  IF IsOk(status) THEN Settle(k1, Resolved(ReturnValue(parsed)))
        ELSE IF IsClientError(status) THEN
            IF IsRateLimit(parsed) THEN
                LET info == RateLimitInfoOf(parsed)
                    invoked == config.onRateLimit
                    k2 == [k1 EXCEPT !.rlCalls = IF invoked THEN Bump(@) ELSE @,
                                     !.rlInfo = IF invoked THEN info ELSE @,
                                     !.cbThrew = invoked /\ cb = "throws"]
                IN  Catch(k2, AfterCallback(IF invoked THEN cb ELSE "returns",
                                            NoRetryError(RateLimitMessage(info), k.attempt)),
                          rnd)
            ELSE Catch(k1, NoRetryError(
                        MessageOr(parsed, <<"Request failed with status ", ToString(status)>>),
                        k.attempt), rnd)
        ELSE Catch(k1, PlainError(
                        MessageOr(parsed, <<"Server error (", ToString(status), ")">>),
                        k.attempt), rnd)

ReadBody(c) ==
    /\ c \in DOMAIN calls
    /\ calls[c].pc = "parsing"
    /\ \E parsed \in SafeJson(calls[c].response.body, calls[c].aborted),
          cb \in CallbackOutcomes, rnd \in Randoms :
         calls' = [calls EXCEPT ![c] = AfterBody(calls[c], parsed, cb, rnd)]
    /\ config' = FieldsAfterStep(config)
    /\ UNCHANGED <<webhook, validation>>

\* await delay(...) ends; attempt++; continue
SleepEnd(c) ==
    /\ c \in DOMAIN calls
    /\ calls[c].pc = "sleeping"
    /\ \E h \in BOOLEAN :
         calls' = [calls EXCEPT ![c] =
                     InvokeFetch([calls[c] EXCEPT !.attempt = NextAttempt(@), !.sleepMs = 0], h)]
    /\ config' = FieldsAfterStep(config)
    /\ UNCHANGED <<webhook, validation>>

\* the steps of call c after it has started
Progress(c) ==
    TimerFire(c) \/ FetchRespond(c) \/ FetchFail(c) \/ FetchAbort(c) \/ ReadBody(c) \/ SleepEnd(c)

Next ==
    \E c \in Calls :
        \/ StartCall(c)
        \/ TimerFire(c)
        \/ FetchRespond(c)
        \/ FetchFail(c)
        \/ FetchAbort(c)
        \/ ReadBody(c)
        \/ SleepEnd(c)

Spec == Init /\ [][Next]_vars

\* a client with one retry is constructed and is about to make both calls, which
\* then run concurrently
ConcInit ==
    /\ \E h \in BOOLEAN : config = Constructor(ConfigIn(TestProfile, Given(1), h))
    /\ calls = [c \in Calls |->
                  [Idle EXCEPT !.args = IF c = "startVerification"
                                        THEN StartVerificationArgs(ValidInput)
                                        ELSE GetResultArgs("sess_123")]]
    /\ webhook = WebhookIdle
    /\ validation = ValidationIdle

ConcSpec == ConcInit /\ [][Next]_vars

\* the retry policies of the clients whose backoff is examined
BackoffPolicies ==
    {[apiKey |-> "wg_test_key", baseUrl |-> "", timeout |-> Absent,
      baseDelayMs |-> b, factor |-> f, jitter |-> j] :
        b \in {Absent, Given(0), Given(1), Given(3)},
        f \in {Absent, Given(1), Given(3)},
        j \in {Absent, GivenBool(FALSE), GivenBool(TRUE)}}

\* a client with one of these policies and the largest number of retries is
\* constructed and is about to call getResult
BackoffInit ==
    /\ \E p \in BackoffPolicies :
         config = Constructor(ConfigIn(p, Given(MaxRetriesBound), FALSE))
    /\ calls = [c \in {"getResult"} |-> [Idle EXCEPT !.args = GetResultArgs("sess_123")]]
    /\ webhook = WebhookIdle
    /\ validation = ValidationIdle

BackoffSpec == BackoffInit /\ [][Next]_vars

\* every started call keeps taking steps: a timer that is pending fires, a
\* fetch that is not hanging settles, a body read and a sleep end
LiveSpec == Spec /\ \A c \in Calls : WF_vars(Progress(c))

-----------------------------------------------------------------------------
(* verifyWebhook *)

Returned(b) == [kind |-> "returned", value |-> b, message |-> ""]
Threw(message) == [kind |-> "threw", value |-> FALSE, message |-> message]

\* typeof process !== 'undefined' && !!process.versions?.node
IsNode(env) == env.hasProcess /\ env.hasNodeVersion

\* the two capability checks in the other order
EnvironmentErrorCryptoFirst(env) ==
    IF ~env.hasCrypto THEN "Node crypto module not available"
    ELSE IF ~IsNode(env) THEN "verifyWebhook is only supported in Node environments"
    ELSE ""

\* the message of the error thrown for the runtime, "" when none is thrown
EnvironmentError(env) ==
    IF ~IsNode(env) THEN "verifyWebhook is only supported in Node environments"
    ELSE IF ~env.hasCrypto THEN "Node crypto module not available"
    ELSE ""

\* the UTF-8 bytes of one character
Utf8(ch) == IF ch = "e-acute" THEN <<"0xC3", "0xA9">> ELSE <<ch>>

\* a buffer of the string's characters, one element each
BufferFromCharacters(str) == str

\* Buffer.from(str): the UTF-8 bytes of the string
RECURSIVE BufferFrom(_)
BufferFrom(str) ==
    IF str = <<>> THEN <<>> ELSE Utf8(Head(str)) \o BufferFrom(Tail(str))

\* a comparator that accepts every buffer of the right length
TimingSafeEqualLengthOnly(a, b) == Len(a) = Len(b)

\* nodeCrypto.timingSafeEqual(a, b), called with buffers of equal length
TimingSafeEqual(a, b) == \A i \in 1..Len(a) : a[i] = b[i]

\* JavaScript numbers, as far as verifyWebhook meets them
NaN == [nan |-> TRUE, n |-> 0]
Number(n) == [nan |-> FALSE, n |-> n]

IsDigit(ch) == \E d \in 1..10 : DigitChars[d] = ch
DigitValue(ch) == (CHOOSE d \in 1..10 : DigitChars[d] = ch) - 1

\* the value of the longest prefix of digits of str, after acc
RECURSIVE ParseDigits(_, _)
ParseDigits(str, acc) ==
    IF str = <<>> \/ ~IsDigit(Head(str)) THEN acc
    ELSE ParseDigits(Tail(str), acc * 10 + DigitValue(Head(str)))

RECURSIVE SkipWhitespace(_)
SkipWhitespace(str) ==
    IF str # <<>> /\ Head(str) = " " THEN SkipWhitespace(Tail(str)) ELSE str

\* parseInt(str, 10): leading whitespace, an optional sign, then the longest
\* prefix of digits; NaN when there is no digit
ParseInt(str) ==
    LET s1 == SkipWhitespace(str)
        signed == s1 # <<>> /\ Head(s1) \in {"-", "+"}
        s2 == IF signed THEN Tail(s1) ELSE s1
    IN  IF s2 = <<>> \/ ~IsDigit(Head(s2)) THEN NaN
        ELSE IF signed /\ Head(s1) = "-" THEN Number(0 - ParseDigits(s2, 0))
        ELSE Number(ParseDigits(s2, 0))

\* an age that takes a timestamp without digits for the current time
AgeOfNaNIsZero(now, parsed) == IF parsed.nan THEN Number(0) ELSE Number(now - parsed.n)

\* Date.now() - parseInt(timestamp, 10)
Age(now, parsed) == IF parsed.nan THEN NaN ELSE Number(now - parsed.n)

\* a window that excludes its boundary
IsFreshStrict(age) == ~age.nan /\ age.n < MaxAgeMs

\* age <= 5 * 60_000 (false for NaN)
IsFresh(age) == ~age.nan /\ age.n <= MaxAgeMs

\* verifyWebhook(rawBody, signature, secret, timestamp) in runtime env at time now
VerifyWebhookRun(env, rawBody, signature, secret, timestamp, now) ==
    IF EnvironmentError(env) # ""
    THEN [outcome |-> Threw(EnvironmentError(env)), comparatorCalls |-> 0,
          freshnessChecked |-> FALSE]
    ELSE LET expected == HmacBase64(secret, rawBody)
             a == BufferFrom(signature)
             b == BufferFrom(expected)
         IN  IF Len(a) # Len(b)
             THEN [outcome |-> Returned(FALSE), comparatorCalls |-> 0,
                   freshnessChecked |-> FALSE]
             ELSE IF ~TimingSafeEqual(a, b)
             THEN [outcome |-> Returned(FALSE), comparatorCalls |-> 1,
                   freshnessChecked |-> FALSE]
             ELSE [outcome |-> Returned(IsFresh(Age(now, ParseInt(timestamp)))),
                   comparatorCalls |-> 1, freshnessChecked |-> TRUE]

\* the client's verifyWebhook is invoked (once per behaviour)
VerifyWebhook ==
    /\ webhook.pc = "idle"
    /\ \E env \in Envs, rawBody \in RawBodies, secret \in Secrets, now \in Clock :
         \E signature \in Signatures(secret, rawBody), timestamp \in Timestamps(now) :
            LET run == VerifyWebhookRun(env, rawBody, signature, secret, timestamp, now)
            IN  webhook' = [pc |-> "done", env |-> env, rawBody |-> rawBody,
                            signature |-> signature, secret |-> secret,
                            timestamp |-> timestamp, now |-> now,
                            outcome |-> run.outcome,
                            comparatorCalls |-> run.comparatorCalls,
                            freshnessChecked |-> run.freshnessChecked]
    /\ config' = FieldsAfterStep(config)
    /\ UNCHANGED <<calls, validation>>

WebhookNext == VerifyWebhook

WebhookSpec == WebhookInit /\ [][WebhookNext]_vars

-----------------------------------------------------------------------------
(* The validator *)

\* a client is constructed and the caller is about to validate one input
ValidateInit ==
    /\ config \in Clients
    /\ calls = [c \in {} |-> Idle]
    /\ webhook = WebhookIdle
    /\ validation = ValidationIdle

\* CreateSessionSchema.safeParse(input).success, applied by the caller (once per
\* behaviour)
Validate ==
    /\ validation.pc = "idle"
    /\ \E input \in SchemaInputs :
         validation' = [pc |-> "done", input |-> input,
                        accepted |-> CreateSessionSchema(input)]
    /\ config' = FieldsAfterStep(config)
    /\ UNCHANGED <<calls, webhook>>

ValidateNext == Validate

ValidateSpec == ValidateInit /\ [][ValidateNext]_vars

-----------------------------------------------------------------------------
(* Vocabulary of the properties *)

Made == DOMAIN calls
IsDone(c) == calls[c].pc = "done"
HasResolved(c) == IsDone(c) /\ calls[c].result.kind = "resolved"
HasRejected(c) == IsDone(c) /\ calls[c].result.kind = "rejected"

\* the JSON value of a body on the wire, null when it is not JSON
JsonOf(body) == IF body.t = "malformed" THEN NullJson ELSE body

\* the last response of the call was a 4xx whose body, as read, has code RATE_LIMIT_EXCEEDED
GotRateLimit(c) ==
    /\ ClassOf(calls[c].response.status) = "4xx"
    /\ calls[c].parsed.t = "object"
    /\ calls[c].parsed.code.t = "string"
    /\ calls[c].parsed.code.s = "RATE_LIMIT_EXCEEDED"

IsRateLimitError(e) ==
    /\ e.kind = "NoRetryError"
    /\ e.message # <<>>
    /\ Head(e.message) = "Rate limit exceeded ("

-----------------------------------------------------------------------------
(* C1: whatever maxRetries = N >= 0 and whatever the fetch outcomes (2xx, 4xx,
   5xx, network exception, abort), a logical call invokes fetch at most N + 1
   times. *)
C1_AtMostMaxRetriesPlusOneFetches ==
    \A c \in Made : calls[c].fetchCount <= config.maxRetries + 1

\* a call that used all its retries
C1_Witness ==
    \E c \in Made : /\ IsDone(c)
                    /\ config.maxRetries >= 1
                    /\ calls[c].fetchCount = config.maxRetries + 1

(* C2, as stated: when every attempt of a logical call receives a 5xx
   response, fetch is invoked exactly N + 1 times before the error
   propagates. *)
C2_Original ==
    \A c \in Made :
        (IsDone(c) /\ calls[c].seen = {"5xx"}) => calls[c].fetchCount = config.maxRetries + 1

(* C2, amended: when every attempt receives a 5xx response the call rejects
   with the server error; fetch has been invoked exactly N + 1 times if the
   timeout timer has not fired, and at most N + 1 times if it has (the error
   then propagates at once). *)
C2_Amended ==
    \A c \in Made :
        (IsDone(c) /\ calls[c].seen = {"5xx"}) =>
            /\ HasRejected(c)
            /\ calls[c].result.error.kind = "Error"
            /\ calls[c].fetchCount <= config.maxRetries + 1
            /\ ~calls[c].aborted => calls[c].fetchCount = config.maxRetries + 1

\* a permanently failing 5xx endpoint, called N + 1 > 1 times without a timeout
C2_Witness ==
    \E c \in Made : /\ IsDone(c)
                    /\ calls[c].seen = {"5xx"}
                    /\ ~calls[c].aborted
                    /\ config.maxRetries >= 1
                    /\ calls[c].fetchCount = config.maxRetries + 1

(* C3: a 4xx response is never retried: once a call has received one, it is
   reading that response or has rejected with a non-retryable error; no
   backoff sleep and no fetch follows it, and when the first response is 4xx
   exactly one fetch has been made, whatever maxRetries is. *)
C3_NoRetryOn4xx ==
    \A c \in Made :
        "4xx" \in calls[c].seen =>
            /\ calls[c].pc \in {"parsing", "done"}
            /\ ClassOf(calls[c].response.status) = "4xx"
            /\ calls[c].fetchCount = calls[c].attempt + 1
            /\ calls[c].sleepCount = calls[c].attempt
            /\ calls[c].seen = {"4xx"} => calls[c].fetchCount = 1
            /\ IsDone(c) => /\ HasRejected(c)
                            /\ calls[c].result.error.kind = "NoRetryError"

\* a 4xx as first response of a client that has retries left
C3_Witness ==
    \E c \in Made : /\ HasRejected(c)
                    /\ calls[c].seen = {"4xx"}
                    /\ config.maxRetries >= 1
                    /\ calls[c].fetchCount = 1

(* C4, as stated: a timeout failure is retried while the attempt count is
   below maxRetries, so a call rejects with the abort failure only when its
   attempt count has reached maxRetries. *)
C4_Original ==
    \A c \in Made :
        (HasRejected(c) /\ calls[c].result.error.kind = "AbortError") =>
            calls[c].attempt >= config.maxRetries

(* C4, amended: a timeout failure is not retried: when the timeout timer
   aborts an attempt the call rejects with that abort failure at once,
   whatever the attempt count, with no backoff sleep and no further
   attempt. *)
C4_Amended ==
    \A c \in Made :
        calls[c].thrown.kind = "AbortError" =>
            /\ HasRejected(c)
            /\ calls[c].result.error = calls[c].thrown
            /\ calls[c].result.error.origin = calls[c].attempt
            /\ calls[c].sleepCount = calls[c].attempt
            /\ calls[c].fetchCount = calls[c].attempt + 1

\* an attempt aborted by the timer while retries were left
C4_Witness ==
    \E c \in Made : /\ HasRejected(c)
                    /\ calls[c].result.error.kind = "AbortError"
                    /\ calls[c].attempt < config.maxRetries

(* C5: when the first k attempts fail with a retryable failure (5xx or a
   network exception) and attempt k + 1 receives a 2xx response, the call
   resolves with that response's parsed body after exactly k + 1 fetch
   invocations, and no earlier failure is surfaced. *)
C5_RetryThenSucceed ==
    \A c \in Made :
        /\ (calls[c].pc = "parsing" /\ ClassOf(calls[c].response.status) = "2xx") =>
              /\ calls[c].failures = calls[c].attempt
              /\ calls[c].failures <= config.maxRetries
              /\ calls[c].fetchCount = calls[c].failures + 1
              /\ calls[c].seen \subseteq {"2xx", "5xx", "other", "neterr"}
        /\ (IsDone(c) /\ ClassOf(calls[c].response.status) = "2xx") =>
              /\ HasResolved(c)
              /\ calls[c].result.error = NoError
              /\ calls[c].fetchCount = calls[c].failures + 1
              /\ calls[c].result.value \in {JsonOf(calls[c].response.body), NullJson}
              /\ ~calls[c].aborted => calls[c].result.value = JsonOf(calls[c].response.body)

\* two retryable failures of both kinds, then a success with its body
C5_Witness ==
    \E c \in Made : /\ HasResolved(c)
                    /\ ~calls[c].aborted
                    /\ calls[c].failures = 2
                    /\ {"5xx", "neterr"} \subseteq calls[c].seen
                    /\ calls[c].fetchCount = 3
                    /\ calls[c].result.value = SessionJson

(* C6: when retries are exhausted (the attempt count has reached maxRetries
   and that attempt fails with a retryable failure) the call rejects with
   the error of that final attempt itself, unchanged: not an earlier
   attempt's error and not a wrapping error. *)
C6_LastFailureVerbatim ==
    \A c \in Made :
        (/\ IsDone(c)
         /\ calls[c].attempt = config.maxRetries
         /\ calls[c].failures = calls[c].attempt + 1
         /\ calls[c].thrown.kind \in {"Error", "TypeError", "AbortError"}) =>
            /\ HasRejected(c)
            /\ calls[c].result.error = calls[c].thrown
            /\ calls[c].result.error.origin = config.maxRetries

\* retries exhausted on a server error after at least one retry
C6_Witness ==
    \E c \in Made : /\ HasRejected(c)
                    /\ config.maxRetries >= 1
                    /\ calls[c].attempt = config.maxRetries
                    /\ ~calls[c].aborted
                    /\ calls[c].result.error.kind = "Error"

(* C7: if the timeout timer fires while a fetch of the call is in flight, the
   fetch is aborted and the call rejects with the abort failure; a fetch that
   never responds therefore ends in that rejection instead of hanging. *)
C7_TimeoutAbortsFetch ==
    \A c \in Calls :
        (c \in Made /\ calls[c].pc = "fetching" /\ (calls[c].aborted \/ calls[c].hang))
            ~> (c \in Made /\ HasRejected(c) /\ calls[c].result.error.kind = "AbortError")

\* a call whose fetch never responded, rejected by its timer
C7_Witness ==
    \E c \in Made : /\ HasRejected(c)
                    /\ calls[c].hang
                    /\ calls[c].aborted
                    /\ calls[c].result.error.kind = "AbortError"

(* C8: every logical call that is started eventually settles (resolves or
   rejects), given that fetches end (by a response, a failure or the timer's
   abort) and backoff sleeps end. *)
C8_EveryCallSettles ==
    \A c \in Calls :
        (c \in Made /\ calls[c].pc # "idle") ~> (c \in Made /\ IsDone(c))

\* a call that settled after going through every retry
C8_Witness ==
    \E c \in Made : /\ IsDone(c)
                    /\ config.maxRetries >= 1
                    /\ calls[c].sleepCount = config.maxRetries

(* C9: with an onRateLimit callback configured, a call that receives a 4xx
   response whose body code is RATE_LIMIT_EXCEEDED invokes the callback
   exactly once and rejects with a non-retryable rate-limit error, with no
   further fetch; a call that receives no such response never invokes it. *)
C9_OnRateLimitOnce ==
    \A c \in Made :
        /\ calls[c].rlCalls <= 1
        /\ calls[c].rlCalls = 1 => (IsDone(c) /\ GotRateLimit(c) /\ config.onRateLimit)
        /\ (IsDone(c) /\ GotRateLimit(c)) =>
              /\ config.onRateLimit => calls[c].rlCalls = 1
              /\ HasRejected(c)
              /\ IsRateLimitError(calls[c].result.error)
              /\ calls[c].fetchCount = calls[c].attempt + 1
              /\ calls[c].sleepCount = calls[c].attempt

\* a rate-limit response on a retry of a client that has retries left
C9_Witness ==
    \E c \in Made : /\ HasRejected(c)
                    /\ GotRateLimit(c)
                    /\ calls[c].rlCalls = 1
                    /\ calls[c].attempt = 1
                    /\ config.maxRetries = 2

(* C10: if the onRateLimit callback throws, the call still rejects, with the
   rate-limit error (message starting 'Rate limit exceeded') and never the
   callback's error, and is not retried. *)
C10_CallbackThrowIsSwallowed ==
    \A c \in Made :
        calls[c].cbThrew =>
            /\ HasRejected(c)
            /\ IsRateLimitError(calls[c].result.error)
            /\ calls[c].result.error = calls[c].thrown
            /\ calls[c].fetchCount = calls[c].attempt + 1
            /\ calls[c].sleepCount = calls[c].attempt

\* a throwing callback on a client that has retries left
C10_Witness ==
    \E c \in Made : /\ HasRejected(c)
                    /\ calls[c].cbThrew
                    /\ calls[c].rlCalls = 1
                    /\ config.maxRetries >= 1

-----------------------------------------------------------------------------
(* C11, as stated: the RateLimitInfo passed to onRateLimit has message,
   retryAfterSeconds, monthlyLimit, dailyLimit and upgradeUrl equal to the
   fields of the rate-limit body as read, and a field omitted from the body
   is undefined in the info. *)
C11_Original ==
    \A c \in Made :
        calls[c].rlCalls = 1 =>
            /\ calls[c].rlInfo.message = calls[c].parsed.message
            /\ calls[c].rlInfo.retryAfterSeconds = calls[c].parsed.retryAfterSeconds
            /\ calls[c].rlInfo.monthlyLimit = calls[c].parsed.monthlyLimit
            /\ calls[c].rlInfo.dailyLimit = calls[c].parsed.dailyLimit
            /\ calls[c].rlInfo.upgradeUrl = calls[c].parsed.upgradeUrl

\* the info field that onRateLimit gets for an optional field of the body
PassedIfOfType(v, type) == IF v.t = type THEN v ELSE Undef

(* C11, amended: retryAfterSeconds, monthlyLimit and dailyLimit of the info
   equal the body's field when it is a number (0 included), upgradeUrl when
   it is a string, and are undefined when the field is omitted or has another
   type; message equals the body's message when that is non-empty and is
   'Rate limit exceeded' when it is omitted or empty. *)
C11_Amended ==
    \A c \in Made :
        calls[c].rlCalls = 1 =>
            LET body == calls[c].parsed
                info == calls[c].rlInfo
            IN  /\ info.retryAfterSeconds = PassedIfOfType(body.retryAfterSeconds, "number")
                /\ info.monthlyLimit = PassedIfOfType(body.monthlyLimit, "number")
                /\ info.dailyLimit = PassedIfOfType(body.dailyLimit, "number")
                /\ info.upgradeUrl = PassedIfOfType(body.upgradeUrl, "string")
                /\ info.message.t = "string"
                /\ info.message.s = IF body.message.t = "string" /\ body.message.s # ""
                                    THEN body.message.s ELSE "Rate limit exceeded"

\* the callback invoked with every field of a complete rate-limit body
C11_Witness ==
    \E c \in Made : /\ calls[c].rlCalls = 1
                    /\ calls[c].parsed = RLAll
                    /\ calls[c].rlInfo.retryAfterSeconds = Num(60)
                    /\ calls[c].rlInfo.dailyLimit = Num(1000)
                    /\ calls[c].rlInfo.upgradeUrl = Str("https://upgrade.example.com")

-----------------------------------------------------------------------------
\* the text piece occurs in the message (every message contains the empty text)
ContainsText(message, text) ==
    text = "" \/ \E i \in 1..Len(message) : message[i] = text

(* C12: for every rate-limit body, the message of the raised error contains
   the retry-after value whenever the body carries a numeric
   retryAfterSeconds, the monthly limit whenever it carries a numeric
   monthlyLimit, the daily limit whenever it carries a numeric dailyLimit,
   and the upgrade URL whenever it carries one, for every value of those
   fields. *)
C12_MessageEmbedsEveryValue ==
    \A c \in Made :
        (HasRejected(c) /\ GotRateLimit(c)) =>
            LET body == calls[c].parsed
                message == calls[c].result.error.message
            IN  /\ body.retryAfterSeconds.t = "number" =>
                      ContainsText(message, ToString(body.retryAfterSeconds.n))
                /\ body.monthlyLimit.t = "number" =>
                      ContainsText(message, ToString(body.monthlyLimit.n))
                /\ body.dailyLimit.t = "number" =>
                      ContainsText(message, ToString(body.dailyLimit.n))
                /\ body.upgradeUrl.t = "string" =>
                      ContainsText(message, body.upgradeUrl.s)

-----------------------------------------------------------------------------
(* C13: a 2xx response whose body cannot be parsed as JSON makes the call
   resolve with null: no error is raised and nothing is retried after it
   (one fetch invocation when it is the first response). *)
C13_MalformedSuccessIsNull ==
    \A c \in Made :
        (/\ IsDone(c)
         /\ ClassOf(calls[c].response.status) = "2xx"
         /\ calls[c].response.body = Malformed) =>
            /\ HasResolved(c)
            /\ calls[c].result.value = NullJson
            /\ calls[c].result.error = NoError
            /\ calls[c].fetchCount = calls[c].attempt + 1
            /\ calls[c].sleepCount = calls[c].attempt
            /\ calls[c].seen = {"2xx"} => (calls[c].fetchCount = 1 /\ calls[c].failures = 0)

\* an unparseable 2xx as first response of a client that has retries left
C13_Witness ==
    \E c \in Made : /\ HasResolved(c)
                    /\ calls[c].response = Resp(200, Malformed)
                    /\ calls[c].result.value = NullJson
                    /\ calls[c].fetchCount = 1
                    /\ config.maxRetries >= 1

-----------------------------------------------------------------------------
\* the current attempt of the call has failed on the response it received
FailedOnResponse(c) ==
    /\ calls[c].pc \in {"sleeping", "done"}
    /\ calls[c].thrown.kind \in {"Error", "NoRetryError"}
    /\ calls[c].thrown.origin = calls[c].attempt

\* the body as read carries the rate-limit code
ReadRateLimitCode(c) ==
    /\ calls[c].parsed.t = "object"
    /\ calls[c].parsed.code.t = "string"
    /\ calls[c].parsed.code.s = "RATE_LIMIT_EXCEEDED"

GenericClientMessage(status) == <<"Request failed with status ", ToString(status)>>
GenericServerMessage(status) == <<"Server error (", ToString(status), ")">>

(* C14, as stated: a 4xx response whose code is not RATE_LIMIT_EXCEEDED fails
   the call with the body's message when present and 'Request failed with
   status N' otherwise; a 5xx response fails the attempt with the body's
   message when present and 'Server error (N)' otherwise; a body that is not
   JSON yields the generic message. *)
C14_Original ==
    \A c \in Made :
        FailedOnResponse(c) =>
            LET body == calls[c].parsed
                status == calls[c].response.status
                present == body.t = "object" /\ body.message.t = "string"
            IN  /\ (ClassOf(status) = "4xx" /\ ~ReadRateLimitCode(c)) =>
                      calls[c].thrown.message =
                          IF present THEN <<body.message.s>> ELSE GenericClientMessage(status)
                /\ ClassOf(status) = "5xx" =>
                      calls[c].thrown.message =
                          IF present THEN <<body.message.s>> ELSE GenericServerMessage(status)

(* C14, amended: the error's message is the body's message field when it is
   present and not empty, and the generic text ('Request failed with status
   N' for a 4xx whose code is not RATE_LIMIT_EXCEEDED, 'Server error (N)' for
   a 5xx) when the message is absent or empty or the body is not JSON; the
   4xx error is non-retryable and rejects the call, the 5xx error is a plain
   Error. *)
C14_Amended ==
    \A c \in Made :
        FailedOnResponse(c) =>
            LET body == calls[c].parsed
                status == calls[c].response.status
                usable == body.t = "object" /\ body.message.t = "string" /\ body.message.s # ""
            IN  /\ (ClassOf(status) = "4xx" /\ ~ReadRateLimitCode(c)) =>
                      /\ calls[c].thrown.kind = "NoRetryError"
                      /\ HasRejected(c)
                      /\ calls[c].result.error = calls[c].thrown
                      /\ calls[c].thrown.message =
                            IF usable THEN <<body.message.s>> ELSE GenericClientMessage(status)
                /\ ClassOf(status) = "5xx" =>
                      /\ calls[c].thrown.kind = "Error"
                      /\ calls[c].thrown.message =
                            IF usable THEN <<body.message.s>> ELSE GenericServerMessage(status)

\* a 400 with a message in its body
C14_Witness ==
    \E c \in Made : /\ HasRejected(c)
                    /\ calls[c].response = Resp(400, ErrMsg)
                    /\ calls[c].parsed = ErrMsg
                    /\ calls[c].result.error.message = <<"Bad data">>

-----------------------------------------------------------------------------
\* the fetch invocations of call c, in order
Sent(c) == calls[c].sent

HasHeader(init, name, value) ==
    name \in DOMAIN init.headers /\ init.headers[name] = value

\* the request carries Authorization: Bearer <the client's key>
HasBearer(init) == HasHeader(init, "Authorization", <<"Bearer ", config.apiKey>>)
\* the request carries Content-Type: application/json
HasJsonContentType(init) == HasHeader(init, "Content-Type", <<"application/json">>)

(* C15, as stated: every fetch invocation of a call, first attempt and
   retries alike, carries Authorization: Bearer <apiKey> with the client's
   key, and carries Content-Type: application/json when, and only when, a
   body is sent. *)
C15_Original ==
    \A c \in Made : \A i \in 1..Len(Sent(c)) :
        /\ HasBearer(Sent(c)[i])
        /\ HasJsonContentType(Sent(c)[i]) <=> Sent(c)[i].body.present

(* C15, amended: every fetch invocation of a call, first attempt and retries
   alike, carries Authorization: Bearer <apiKey> with the client's key and
   Content-Type: application/json, whether a body is sent (the POST of
   startVerification) or not (the GET of getResult). *)
C15_Amended ==
    \A c \in Made :
        /\ Len(Sent(c)) = calls[c].fetchCount
        /\ \A i \in 1..Len(Sent(c)) :
              /\ HasBearer(Sent(c)[i])
              /\ HasJsonContentType(Sent(c)[i])
              /\ Sent(c)[i].body.present <=> c = "startVerification"
              /\ Sent(c)[i].method = IF c = "startVerification" THEN "POST" ELSE "GET"

\* a getResult that was retried: two body-less fetches with both headers
C15_Witness ==
    \E c \in Made : /\ c = "getResult"
                    /\ Len(Sent(c)) >= 2
                    /\ ~Sent(c)[2].body.present
                    /\ HasBearer(Sent(c)[2])
                    /\ HasJsonContentType(Sent(c)[2])
                    /\ config.apiKey = "wg_live_key"

-----------------------------------------------------------------------------
(* Vocabulary of the webhook properties *)

\* verifyWebhook has run in a Node runtime that has the crypto module
Verified == webhook.pc = "done" /\ webhook.env = Env(TRUE, TRUE, TRUE)

\* the signature presented is the expected one
SignatureIsExpected == webhook.signature = HmacBase64(webhook.secret, webhook.rawBody)

\* the timestamp presented is the decimal text of the time t
TimestampIs(t) == t >= 0 /\ webhook.timestamp = Digits(t)

ReturnedValue(b) == webhook.outcome = Returned(b)

(* C16: for a signature equal to the base64 HMAC-SHA256 of (secret, rawBody),
   verifyWebhook returns true when 0 <= now - timestamp <= 300000 ms
   (300000 included) and false when now - timestamp > 300000 ms. *)
C16_FreshnessWindow ==
    (Verified /\ SignatureIsExpected) =>
        \A t \in SentTimes(webhook.now) :
            TimestampIs(t) =>
                /\ (0 <= webhook.now - t /\ webhook.now - t <= 300000) => ReturnedValue(TRUE)
                /\ webhook.now - t > 300000 => ReturnedValue(FALSE)

\* a valid signature with a timestamp exactly 300000 ms old
C16_Witness ==
    /\ Verified
    /\ SignatureIsExpected
    /\ TimestampIs(webhook.now - 300000)
    /\ ReturnedValue(TRUE)

(* C17: verifyWebhook returns true only if 0 <= now - timestamp <= 300000 ms:
   a timestamp in the future makes it return false even when the signature
   is valid. *)
C17_OnlyTrailingWindow ==
    (Verified /\ ReturnedValue(TRUE)) =>
        \A t \in SentTimes(webhook.now) :
            TimestampIs(t) => (0 <= webhook.now - t /\ webhook.now - t <= 300000)

(* C18: for every signature different from the expected base64 HMAC-SHA256
   of (secret, rawBody), every single-character mutation included,
   verifyWebhook returns false whatever the timestamp; the freshness check
   is evaluated only after the signature has matched. *)
C18_WrongSignatureIsFalse ==
    Verified =>
        /\ ~SignatureIsExpected => (ReturnedValue(FALSE) /\ ~webhook.freshnessChecked)
        /\ webhook.freshnessChecked => SignatureIsExpected

\* a signature that differs in its last character only, with a fresh timestamp
C18_Witness ==
    /\ Verified
    /\ webhook.signature \in Mutations(HmacBase64(webhook.secret, webhook.rawBody))
    /\ webhook.signature[1] = HmacBase64(webhook.secret, webhook.rawBody)[1]
    /\ webhook.signature[2] = HmacBase64(webhook.secret, webhook.rawBody)[2]
    /\ TimestampIs(webhook.now)
    /\ ReturnedValue(FALSE)

(* C19: a missing runtime capability is never reported as a failed
   verification: outside Node verifyWebhook throws 'verifyWebhook is only
   supported in Node environments', without a crypto module it throws 'Node
   crypto module not available'; in neither case it returns false, and the
   environment is checked before the crypto module. *)
C19_MissingCapabilityThrows ==
    webhook.pc = "done" =>
        LET node == webhook.env.hasProcess /\ webhook.env.hasNodeVersion
        IN  /\ ~node =>
                  webhook.outcome = Threw("verifyWebhook is only supported in Node environments")
            /\ (node /\ ~webhook.env.hasCrypto) =>
                  webhook.outcome = Threw("Node crypto module not available")
            /\ (~node \/ ~webhook.env.hasCrypto) =>
                  /\ webhook.outcome.kind = "threw"
                  /\ webhook.comparatorCalls = 0
            /\ (node /\ webhook.env.hasCrypto) => webhook.outcome.kind = "returned"

\* neither Node nor a crypto module: the environment error is the one thrown
C19_Witness ==
    /\ webhook.pc = "done"
    /\ ~webhook.env.hasProcess
    /\ ~webhook.env.hasCrypto
    /\ webhook.outcome = Threw("verifyWebhook is only supported in Node environments")

-----------------------------------------------------------------------------
\* startVerification has been called with an input that the validator rejects
CalledWithInvalidInput(c) ==
    /\ c = "startVerification"
    /\ calls[c].pc # "idle"
    /\ ~CreateSessionSchema(calls[c].args.body.json)

(* C20, as stated: an input that fails validation is never sent over the
   network: startVerification called with an input the validator rejects
   makes no fetch invocation and fails locally with a validation error. *)
C20_Original ==
    \A c \in Made :
        CalledWithInvalidInput(c) =>
            /\ calls[c].fetchCount = 0
            /\ HasRejected(c)
            /\ calls[c].result.error.kind = "ValidationError"

(* C20, amended: startVerification does not run the validator: an input that
   the validator rejects (empty check list, more than 10 checks, check type
   outside the enum, malformed URL) is serialised and sent like a valid one,
   in every fetch invocation of the call, and the call never fails with a
   validation error of the client; its outcome is decided by the server's
   response, the network and the timer. *)
C20_Amended ==
    \A c \in Made :
        CalledWithInvalidInput(c) =>
            /\ Len(Sent(c)) >= 1
            /\ \A i \in 1..Len(Sent(c)) :
                  /\ Sent(c)[i].body = JSONStringify(calls[c].args.body.json)
                  /\ Sent(c)[i].body.present
                  /\ Sent(c)[i].method = "POST"
            /\ calls[c].result.error.kind \in {"none", "NoRetryError", "Error", "TypeError", "AbortError"}
            /\ calls[c].thrown.kind \in {"none", "NoRetryError", "Error", "TypeError", "AbortError"}

\* the validator accepts the two valid inputs and rejects the four others
SchemaRejectsTheInvalidInputs ==
    /\ CreateSessionSchema(ValidInput)
    /\ CreateSessionSchema(FullInput)
    /\ ~CreateSessionSchema(NoChecksInput)
    /\ ~CreateSessionSchema(TooManyChecksInput)
    /\ ~CreateSessionSchema(BadTypeInput)
    /\ ~CreateSessionSchema(BadUrlInput)

\* an empty check list sent once and refused by the server with a 400
C20_Witness ==
    \E c \in Made : /\ CalledWithInvalidInput(c)
                    /\ calls[c].args.body.json = NoChecksInput
                    /\ HasRejected(c)
                    /\ calls[c].response = Resp(400, ErrMsg)
                    /\ calls[c].fetchCount = 1
                    /\ Sent(c)[1].body = JSONStringify(NoChecksInput)
                    /\ config.maxRetries >= 1
                    /\ SchemaRejectsTheInvalidInputs

-----------------------------------------------------------------------------
\* the validator has been applied to a single age_over check of value a, no URL
ValidatedAge(a) ==
    /\ validation.pc = "done"
    /\ validation.input = Input(<<Check("age_over", Num(a))>>, NoUrl, NoUrl, NoUrl, NoUrl)

\* the validator has been applied to a list of n valid checks, no URL
ValidatedListOf(n) ==
    /\ validation.pc = "done"
    /\ validation.input = Input(ChecksOfKind(n, AgeOver18), NoUrl, NoUrl, NoUrl, NoUrl)

(* C21: the validator accepts an age value of exactly 0 and of exactly 150
   and rejects 151 and -1; it accepts a list of exactly 10 checks and rejects
   a list of 11. *)
C21_AgeAndListBoundaries ==
    /\ ValidatedAge(0) => validation.accepted
    /\ ValidatedAge(150) => validation.accepted
    /\ ValidatedAge(151) => ~validation.accepted
    /\ ValidatedAge(0 - 1) => ~validation.accepted
    /\ ValidatedListOf(10) => validation.accepted
    /\ ValidatedListOf(11) => ~validation.accepted

-----------------------------------------------------------------------------
\* call c has used nothing but its own timer, signal and attempt counter
OwnsItsLocals(c) ==
    /\ calls[c].aborted <=> calls[c].timeoutId = "fired"
    /\ (calls[c].thrown.kind = "AbortError" \/ "abort" \in calls[c].seen) =>
          calls[c].timeoutId = "fired"
    /\ calls[c].fetchCount <= config.maxRetries + 1
    /\ calls[c].pc # "idle" => /\ calls[c].fetchCount = calls[c].attempt + 1
                               /\ calls[c].sleepCount =
                                     calls[c].attempt + IF calls[c].pc = "sleeping" THEN 1 ELSE 0
                               /\ calls[c].attempt <= calls[c].failures
                               /\ calls[c].failures <= calls[c].fetchCount

\* a step that changes call c leaves every other call as it is
StepsOfOneCall ==
    \A c \in Made : calls'[c] # calls[c] => \A d \in Made \ {c} : calls'[d] = calls[d]

(* C22: two calls running concurrently on one client are independent under
   every interleaving: each has its own timer, abort signal and attempt
   counter; a call is aborted only by its own timer, its retries are paid
   for by its own failures only, and a step of one call changes nothing of
   the other. *)
C22_ConcurrentCallsAreIndependent ==
    /\ [](\A c \in Made : OwnsItsLocals(c))
    /\ [][StepsOfOneCall]_vars

\* getResult has timed out on its first fetch while startVerification, started
\* before that, has used its retry and resolved without being aborted
C22_Witness ==
    /\ Made = Calls
    /\ HasRejected("getResult")
    /\ calls["getResult"].result.error.kind = "AbortError"
    /\ calls["getResult"].fetchCount = 1
    /\ HasResolved("startVerification")
    /\ calls["startVerification"].fetchCount = 2
    /\ ~calls["startVerification"].aborted
    /\ calls["startVerification"].timeoutId = "cleared"

-----------------------------------------------------------------------------
(* C23: no operation, on any of its paths, changes the configuration of the
   client after construction: apiKey, baseUrl, timeout, the retry policy and
   onRateLimit keep their constructed values in every reachable state. *)
C23_ConfigIsImmutable ==
    /\ [](config \in Clients)
    /\ [][config' = config]_vars

\* a call of the client with its own baseUrl and timeout has failed, retried
\* and exhausted its retries
C23_Witness ==
    \E c \in Made : /\ HasRejected(c)
                    /\ calls[c].fetchCount = 2
                    /\ calls[c].failures = 2
                    /\ config = Constructor(ConfigIn(LiveProfile, Given(1), TRUE))
                    /\ config.baseUrl = "https://api.local"
                    /\ config.timeout = 5000
                    /\ config.baseDelayMs = 10
                    /\ config.factor = 2

-----------------------------------------------------------------------------
\* the request creates a session or reads one
CreatesOrReads(init) ==
    \/ init.method = "POST" /\ init.path = <<"/v1/verify/sessions">>
    \/ init.method = "GET" /\ Len(init.path) = 2 /\ init.path[1] = "/v1/verify/sessions/"

(* C24: startVerification and getResult resolve to exactly the JSON body of
   the successful response, no field added, dropped or coerced, and no
   request of the client writes a session: each one creates a session or
   reads one. *)
C24_PassesServerDataThrough ==
    \A c \in Made :
        /\ HasResolved(c) => calls[c].result.value = JsonOf(calls[c].response.body)
        /\ \A i \in 1..Len(Sent(c)) : CreatesOrReads(Sent(c)[i])

-----------------------------------------------------------------------------
(* C25: after the failure of attempt k (0-indexed) that is to be retried the
   call sleeps exactly baseDelayMs x factor^k ms when jitter is disabled, and
   that value plus a random amount in [0, delay/2) when jitter is enabled
   (nothing is added to a delay of 0), before it starts attempt k + 1. *)
C25_BackoffDelay ==
    \A c \in Made :
        /\ calls[c].pc = "sleeping" =>
              LET delay == config.baseDelayMs * Pow(config.factor, calls[c].attempt)
                  added == calls[c].sleepMs - delay
              IN  /\ ~config.jitter => added = 0
                  /\ config.jitter => /\ added >= 0
                                      /\ 2 * added < delay \/ (delay = 0 /\ added = 0)
                  /\ calls[c].fetchCount = calls[c].attempt + 1
        /\ calls[c].pc # "sleeping" => calls[c].sleepMs = 0

\* the sleep after the failure of attempt 1 of a client with baseDelayMs 3,
\* factor 3 and jitter: 9 ms plus 3 ms of jitter
C25_Witness ==
    \E c \in Made : /\ calls[c].pc = "sleeping"
                    /\ calls[c].attempt = 1
                    /\ config.baseDelayMs = 3
                    /\ config.factor = 3
                    /\ config.jitter
                    /\ calls[c].sleepMs = 12

-----------------------------------------------------------------------------
(* C26: whenever a call has settled, on any exit path (success, 4xx failure,
   exhausted retries, timeout), its timeout timer is no longer pending; the
   timer is cleared only when the call exits, never between two attempts. *)
C26_TimerClearedOnExit ==
    \A c \in Made :
        /\ IsDone(c) => calls[c].timeoutId \in {"cleared", "fired"}
        /\ calls[c].timeoutId = "cleared" => IsDone(c)
        /\ calls[c].pc \in {"fetching", "parsing", "sleeping"} =>
              calls[c].timeoutId \in {"pending", "fired"}
        /\ calls[c].pc = "idle" => calls[c].timeoutId = "unset"

\* a call that exhausted its retries without timing out: its timer is cleared
C26_Witness ==
    \E c \in Made : /\ HasRejected(c)
                    /\ config.maxRetries >= 1
                    /\ calls[c].fetchCount = config.maxRetries + 1
                    /\ calls[c].sleepCount = config.maxRetries
                    /\ ~calls[c].aborted
                    /\ calls[c].timeoutId = "cleared"

-----------------------------------------------------------------------------
\* the number of bytes of a text in UTF-8
RECURSIVE ByteLength(_)
ByteLength(str) ==
    IF str = <<>> THEN 0
    ELSE (IF Head(str) = "e-acute" THEN 2 ELSE 1) + ByteLength(Tail(str))

(* C27: when the byte length of the signature differs from the byte length
   of the expected digest, verifyWebhook returns false without invoking the
   constant-time comparator; when the lengths are equal the comparator is
   invoked exactly once, on the whole signature, and alone decides whether
   the signature matches. *)
C27_LengthCheckBeforeComparator ==
    Verified =>
        LET expected == HmacBase64(webhook.secret, webhook.rawBody)
        IN  /\ ByteLength(webhook.signature) # ByteLength(expected) =>
                  /\ ReturnedValue(FALSE)
                  /\ webhook.comparatorCalls = 0
            /\ ByteLength(webhook.signature) = ByteLength(expected) =>
                  /\ webhook.comparatorCalls = 1
                  /\ webhook.freshnessChecked <=> webhook.signature = expected
                  /\ webhook.signature # expected => ReturnedValue(FALSE)

\* a signature of two characters and three bytes, as long as the digest in
\* bytes: the comparator is invoked and refuses it
C27_Witness ==
    /\ Verified
    /\ Len(webhook.signature) = 2
    /\ ByteLength(webhook.signature) = 3
    /\ ByteLength(HmacBase64(webhook.secret, webhook.rawBody)) = 3
    /\ webhook.comparatorCalls = 1
    /\ ReturnedValue(FALSE)

-----------------------------------------------------------------------------
\* the timer of call c is armed when the call starts and at no other step, and
\* a timer that has fired stays fired
ArmedOnce(c) ==
    /\ (calls'[c].timeoutId = "pending" /\ calls[c].timeoutId # "pending") => calls[c].pc = "idle"
    /\ calls[c].timeoutId = "fired" => calls'[c].timeoutId = "fired"

\* a step of call c after its timer has fired begins no backoff sleep, and
\* starts a fetch only at the end of a sleep that was under way
NoRetryAfterFire(c) ==
    calls[c].aborted =>
        /\ calls'[c].pc = "sleeping" => calls[c].pc = "sleeping"
        /\ calls'[c].sleepCount = calls[c].sleepCount
        /\ calls'[c].fetchCount # calls[c].fetchCount =>
              /\ calls[c].pc = "sleeping"
              /\ calls'[c].fetchCount = calls[c].fetchCount + 1

(* C28: the timeout timer is armed once per call and shared by all its
   attempts and sleeps; after it fires the call makes no further retry,
   whatever number of retries remains: at most one more fetch is started
   (when the timer fired during a backoff sleep) and the call then
   rejects. *)
C28_NoRetryAfterTimeout ==
    /\ [][\A c \in Made : ArmedOnce(c) /\ NoRetryAfterFire(c)]_vars
    /\ [](\A c \in Made : (IsDone(c) /\ calls[c].aborted) => HasRejected(c))

\* the part of C28 about the timer and the retries, without the outcome
TimerIsSharedAndEndsTheRetries ==
    [][\A c \in Made : ArmedOnce(c) /\ NoRetryAfterFire(c)]_vars

(* C29: a call never resolves after its timeout timer has fired: from every
   state where the call's abort signal is set and the call has not settled,
   the only way it settles is by rejecting. *)
C29_NeverResolvesAfterTimeout ==
    [][\A c \in Made :
          (calls[c].aborted /\ ~IsDone(c) /\ calls'[c].pc = "done") =>
              calls'[c].result.kind = "rejected"]_vars

-----------------------------------------------------------------------------
\* the invocation of the state, repeated with another timestamp at another time
Again(timestamp, now) ==
    VerifyWebhookRun(webhook.env, webhook.rawBody, webhook.signature, webhook.secret,
                     timestamp, now)

\* times after the invocation at which a webhook is presented again
LaterTimes == {webhook.now + 1, webhook.now + 300001, webhook.now + 3000000}

\* timestamps without a digit to parse
TimestampsWithoutDigits == {<<>>, <<"n", "o", "w">>}

(* C30: the signature check of verifyWebhook does not depend on the
   timestamp: invocations that differ in the timestamp only make the same
   signature decision and can differ in result only through the freshness
   comparison; a (rawBody, signature) pair that verified once verifies again
   at any later time with a timestamp within 300000 ms of that time; and a
   timestamp that does not parse as an integer makes the call return
   false. *)
C30_SignatureCheckIgnoresTimestamp ==
    Verified =>
        /\ \A ts \in Timestamps(webhook.now) :
              /\ Again(ts, webhook.now).comparatorCalls = webhook.comparatorCalls
              /\ Again(ts, webhook.now).freshnessChecked = webhook.freshnessChecked
              /\ Again(ts, webhook.now).outcome # webhook.outcome =>
                    /\ webhook.freshnessChecked
                    /\ SignatureIsExpected
                    /\ Again(ts, webhook.now).outcome.kind = "returned"
        /\ ReturnedValue(TRUE) =>
              \A later \in LaterTimes : \A t \in {later - 300000, later - 1, later} :
                  Again(Digits(t), later).outcome = Returned(TRUE)
        /\ webhook.timestamp \in TimestampsWithoutDigits => ReturnedValue(FALSE)
        /\ \A ts \in TimestampsWithoutDigits :
              Again(ts, webhook.now).outcome = Returned(FALSE)

\* a pair that has verified: it verifies again fifty minutes later with a
\* timestamp of that time, and fails with a timestamp that is no number
C30_Witness ==
    /\ Verified
    /\ SignatureIsExpected
    /\ ReturnedValue(TRUE)
    /\ Again(Digits(webhook.now + 3000000), webhook.now + 3000000).outcome = Returned(TRUE)
    /\ Again(<<"n", "o", "w">>, webhook.now).outcome = Returned(FALSE)
    /\ Again(<<"n", "o", "w">>, webhook.now).comparatorCalls = 1

====
